---- MODULE Spec2Model ----
(***************************************************************************)
(* GuardedAccess: the guard helper types of src/guardTypes.ts, modelled as *)
(* functions over structural types, and the life of one exported class     *)
(* binding that is re-typed by guardClass / unguardClass / a cast to       *)
(* UnguardedConstructor or OriginalConstructor, instantiated and written   *)
(* through.                                                                *)
(*                                                                         *)
(* A member name is a sequence of characters.  An object type is a record  *)
(* [props, mapped]: props maps each member name to [vis, ro, ty], mapped   *)
(* tells whether the type was produced by a mapped type (Pick/Omit/...) or *)
(* is a class type.  An index signature is a member of props under the     *)
(* key of the signature.  A constructor type is [kind, sigs, stat]: its    *)
(* construct signatures and its static side.  A construct signature is     *)
(* [decl, args, ret, parts]: where it is declared, its parameters, its     *)
(* return type with the members of all constituents, and the constituents  *)
(* of the return type one by one (a class type has one, an intersection of *)
(* mapped types one for each).  The pseudo property                        *)
(* [originalConstructorKey] is a member of the static side like any other; *)
(* its ty is the constructor type it carries.                              *)
(*                                                                         *)
(* Some answers of the type checker depend on compiler options the         *)
(* repository does not fix; builds is the set of option settings under     *)
(* which every step taken so far is accepted with the type it was given.   *)
(***************************************************************************)
EXTENDS Naturals, Sequences, FiniteSets, TLC

VARIABLES entity, held, hist, ref, statics, made, budget, builds

vars == <<entity, held, hist, ref, statics, made, budget, builds>>

(* ------------------------------ bounds --------------------------------- *)

\* How many times the exported binding is re-typed.
MaxOps == 2

\* How many times the binding is re-typed when only its types are followed:
\* nested guards followed by a cast and an unguard take four re-typings.
MaxNestedOps == 4

(* ------------------------------ names ---------------------------------- *)

\* unguarded
NameA == <<"a">>

\* _guarded
NameB == <<"_", "b">>

\* guarded$
NameC == <<"c", "$">>

\* _unaffected
NameD == <<"_", "d">>

\* _alsoUnaffected
NameE == <<"_", "e">>

\* _alsoUnguarded
NameF == <<"_", "f">>

\* virtualMethod
NameM == <<"m">>

\* unguardedStatic
NameT == <<"t">>

\* _guardedStatic
NameS == <<"_", "s">>

\* guardedStatic$
NameV == <<"v", "$">>

\* _alsoUnguardedStatic
NameQ == <<"_", "q">>

\* staticProperty
NameP == <<"p">>

\* staticMethod
NameN == <<"n">>

Prototype == <<"p", "r", "o", "t", "o", "t", "y", "p", "e">>

\* The members that are methods: part of the type, not fields of an object.
Methods == {NameM, NameN}

\* declare const originalConstructorKey: unique symbol
originalConstructorKey == <<"[originalConstructorKey]">>

\* The names of the instance members and of the static members that the
\* varied classes declare.
InstanceNames == {NameA, NameB, NameC}

StaticNames == {NameT, NameS, NameV}

(* --------------------------- guard patterns ---------------------------- *)
\* A template literal type `${prefix}${string}${suffix}` is [prefix, suffix].

\* export type DefaultGuard = `_${string}`
DefaultGuard == [prefix |-> <<"_">>, suffix |-> << >>]

\* type DollarGuard = `${string}$`
DollarGuard == [prefix |-> << >>, suffix |-> <<"$">>]

\* the type `string`, the constraint of every TGuard
StringType == [prefix |-> << >>, suffix |-> << >>]

Patterns == {DefaultGuard, DollarGuard}

(* ------------------------- index signature keys ------------------------ *)

\* [x: string], [x: number], [x: symbol]
KeyString == <<"[x: string]">>

KeyNumber == <<"[x: number]">>

KeySymbol == <<"[x: symbol]">>

\* [x: TGuard] for a template TGuard; string itself is [x: string].
IndexKeyOf(g) ==
    IF g = StringType THEN KeyString
    ELSE <<"[x: ">> \o g.prefix \o <<"${string}">> \o g.suffix \o <<"]">>

PatternKeys == {IndexKeyOf(g) : g \in Patterns}

IndexKeys == {KeyString, KeyNumber, KeySymbol} \cup PatternKeys

\* A key that is a string literal: the name of a declared member.
IsStringKey(n) == n \notin IndexKeys \cup {originalConstructorKey}

StartsWith(n, p) == Len(n) >= Len(p) /\ SubSeq(n, 1, Len(p)) = p

EndsWith(n, s) == Len(n) >= Len(s) /\ SubSeq(n, Len(n) - Len(s) + 1, Len(n)) = s

\* Is the literal type of a key assignable to the guard template: the key is
\* a string (not the unique symbol) of the form prefix ++ anything ++ suffix.
MatchesPrefixOnly(n, g) == IsStringKey(n) /\ StartsWith(n, g.prefix)

Matches(n, g) ==
    /\ IsStringKey(n)
    /\ Len(n) >= Len(g.prefix) + Len(g.suffix)
    /\ StartsWith(n, g.prefix)
    /\ EndsWith(n, g.suffix)

(* ------------------------------ types ---------------------------------- *)

Value == [kind |-> "value"]

Never == [kind |-> "never"]

Undefined == [kind |-> "undefined"]

AnyType == [kind |-> "any"]

\* Object types have no kind; constructor types, value types, undefined, any
\* and never do.
IsNever(T) == IF "kind" \in DOMAIN T THEN T.kind = "never" ELSE FALSE

IsAny(T) == IF "kind" \in DOMAIN T THEN T.kind = "any" ELSE FALSE

IsConstructor(T) == IF "kind" \in DOMAIN T THEN T.kind = "ctor" ELSE FALSE

EmptyProps == [n \in {} |-> Value]

EmptyObject == [props |-> EmptyProps, mapped |-> TRUE]

\* What a homomorphic mapped type { [P in keyof T]: ... } iterates over: the
\* public properties and the index signatures of T.
MappedKeys(T) == {n \in DOMAIN T.props : T.props[n].vis = "public"}

\* keyof T: the names of the public members only (the unique symbol key of
\* the origin marker included, when the type has it).  keyof never and keyof
\* any are string | number | symbol.  In the union, string absorbs every
\* string literal and template and brings number with it, symbol absorbs the
\* unique symbol.
KeyOf(T) ==
    IF IsNever(T) \/ IsAny(T) THEN {KeyString, KeyNumber, KeySymbol}
    ELSE LET K == MappedKeys(T)
         IN  {n \in K :
                /\ (KeyString \in K /\ n # KeyString) => ~(IsStringKey(n) \/ n \in PatternKeys)
                /\ KeySymbol \in K => n # originalConstructorKey}
             \cup (IF KeyString \in K THEN {KeyNumber} ELSE {})

\* The key k, an index key or a member name, is assignable to the key type
\* of the index signature j ([x: string] also takes numbers and templates).
KeyApplies(k, j) ==
    IF j = KeyString THEN k # KeySymbol /\ k # originalConstructorKey
    ELSE \/ j = k
         \/ j = KeySymbol /\ k = originalConstructorKey
         \/ \E g \in Patterns : j = IndexKeyOf(g) /\ Matches(k, g)

\* The index signatures of T that apply to key k: those whose key type k is
\* assignable to; [x: string] is looked at only when no other one applies.
ApplicableIndex(T, k) ==
    LET I == DOMAIN T.props \cap IndexKeys
        Other == {j \in I \ {KeyString} : KeyApplies(k, j)}
    IN  IF Other # {} THEN Other
        ELSE IF KeyString \in I /\ KeyApplies(k, KeyString) THEN {KeyString}
        ELSE {}

\* A & B of two member types that are not constructor types: never absorbs
\* everything, any everything else.
IntersectValue(a, b) ==
    IF IsNever(a) \/ IsNever(b) THEN Never
    ELSE IF IsAny(a) \/ IsAny(b) THEN AnyType
    ELSE a

\* The intersection of the value types of the index signatures J of T.
RECURSIVE IndexType(_, _)
IndexType(T, J) ==
    LET j == CHOOSE x \in J : TRUE
    IN  IF J = {j} THEN T.props[j].ty
        ELSE IntersectValue(T.props[j].ty, IndexType(T, J \ {j}))

\* T[P] with its modifiers for an index key k of a mapped type over T:
\* never[P] is never and any[P] is any, without modifiers; else the type of
\* the index signatures of T that apply to k, read-only when every one of
\* them is.
IndexMember(T, k) ==
    [vis |-> "public",
     ro |-> IF IsNever(T) \/ IsAny(T) THEN FALSE
            ELSE /\ ApplicableIndex(T, k) # {}
                 /\ \A j \in ApplicableIndex(T, k) : T.props[j].ro,
     ty |-> IF IsNever(T) THEN Never
            ELSE IF IsAny(T) THEN AnyType
            ELSE IF ApplicableIndex(T, k) = {} THEN Never
            ELSE IndexType(T, ApplicableIndex(T, k))]

\* Pick<T, K> = { [P in K]: T[P] }, homomorphic: modifiers are kept.
Pick(T, K) ==
    [props |-> [n \in K |-> IF n \in IndexKeys THEN IndexMember(T, n)
                            ELSE T.props[n]],
     mapped |-> TRUE]

\* Omit<T, K> = Pick<T, Exclude<keyof T, K>>
OmitAsReadonly(T, K) ==
    [props |-> [n \in KeyOf(T) \ K |-> [Pick(T, {n}).props[n] EXCEPT !.ro = TRUE]],
     mapped |-> TRUE]

Omit(T, K) == Pick(T, KeyOf(T) \ K)

\* Readonly<T> = { readonly [P in keyof T]: T[P] }
ReadonlyIdentity(T) == T

Readonly(T) ==
    [props |-> [n \in MappedKeys(T) |-> [T.props[n] EXCEPT !.ro = TRUE]],
     mapped |-> TRUE]

\* type Mutable<T> = { -readonly [P in keyof T]: T[P] }
MutableIdentity(T) == T

Mutable(T) ==
    [props |-> [n \in MappedKeys(T) |-> [T.props[n] EXCEPT !.ro = FALSE]],
     mapped |-> TRUE]

RECURSIVE IntersectCtor(_, _)
RECURSIVE IntersectProp(_, _)
RECURSIVE Intersect(_, _)

\* The signatures of B that A does not have already, in order: a signature
\* is identical to another by its parameters and its return type, wherever
\* the two are declared; two return types are identical when each
\* constituent of one is a constituent of the other (a class type is no
\* mapped type, whatever its members).
NewSignatures(A, B) ==
    SelectSeq(B, LAMBDA s : \A i \in 1..Len(A) :
                                A[i].args # s.args \/ A[i].parts # s.parts)

\* A & B of two constructor types: never if one is never; else the construct
\* signatures of both, in order, an identical signature once, and the
\* intersection of the static sides.
IntersectCtor(A, B) ==
    IF IsNever(A) \/ IsNever(B) THEN Never
    ELSE [kind |-> "ctor",
          sigs |-> A.sigs \o NewSignatures(A.sigs, B.sigs),
          stat |-> Intersect(A.stat, B.stat)]

\* A member of both constituents is private if it is in one of them, else
\* public if it is in one of them, else protected; it is read-only only if it
\* is in both; its type is the intersection of the two types.
IntersectProp(a, b) ==
    [vis |-> IF "private" \in {a.vis, b.vis} THEN "private"
             ELSE IF "public" \in {a.vis, b.vis} THEN "public"
             ELSE "protected",
     ro |-> a.ro /\ b.ro,
     ty |-> IF IsConstructor(a.ty) /\ IsConstructor(b.ty)
            THEN IntersectCtor(a.ty, b.ty)
            ELSE IntersectValue(a.ty, b.ty)]

\* A & B of two object types.
Intersect(A, B) ==
    [props |-> [n \in DOMAIN A.props \cup DOMAIN B.props |->
                  IF n \in DOMAIN A.props /\ n \in DOMAIN B.props
                  THEN IntersectProp(A.props[n], B.props[n])
                  ELSE IF n \in DOMAIN A.props THEN A.props[n] ELSE B.props[n]],
     mapped |-> A.mapped /\ B.mapped]

(* --------------------------- guard types ------------------------------- *)

\* export type GuardedNameOf<T, TGuard extends string> = keyof T & TGuard
\* A string literal of keyof T stays when it matches the template; string
\* & TGuard is TGuard; number and symbol give never.  (No type built here
\* has a template key without having string, so a template of keyof T is
\* never met.)
GuardedNameOf(T, TGuard) ==
    {n \in KeyOf(T) : Matches(n, TGuard)}
    \cup (IF KeyString \in KeyOf(T) THEN {IndexKeyOf(TGuard)} ELSE {})

\* GuardedProperties<T, TGuard> = Pick<T, GuardedNameOf<T, TGuard>>
GuardedProperties(T, TGuard) == Pick(T, GuardedNameOf(T, TGuard))

\* UnguardedProperties<T, TGuard> = Omit<T, GuardedNameOf<T, TGuard>>
UnguardedProperties(T, TGuard) == Omit(T, GuardedNameOf(T, TGuard))

GuardedOpenOnly(T, TGuard) == UnguardedProperties(T, TGuard)

\* Guarded<T, TGuard> =
\*   UnguardedProperties<T, TGuard> & Readonly<GuardedProperties<T, TGuard>>
Guarded(T, TGuard) ==
    Intersect(UnguardedProperties(T, TGuard), Readonly(GuardedProperties(T, TGuard)))

\* The constituents of the intersection Guarded<T, TGuard>.
GuardedConstituents(T, TGuard) ==
    {UnguardedProperties(T, TGuard), Readonly(GuardedProperties(T, TGuard))}

\* Unguarded<T, TGuard> =
\*   UnguardedProperties<T, TGuard> & Mutable<GuardedProperties<T, TGuard>>
Unguarded(T, TGuard) ==
    Intersect(UnguardedProperties(T, TGuard), Mutable(GuardedProperties(T, TGuard)))

\* The constituents of the intersection Unguarded<T, TGuard>.
UnguardedConstituents(T, TGuard) ==
    {UnguardedProperties(T, TGuard), Mutable(GuardedProperties(T, TGuard))}

\* The parameter lists of construct signatures: none, or `...args: never`.
NoArgs == "()"

NeverArgs == "(...args: never)"

\* The compiler options the types depend on, each on or off.
CompilerOptions == [strictNullChecks : BOOLEAN, strictFunctionTypes : BOOLEAN]

\* A member type is assignable to another: never to every type, any to every
\* type but never, every type to any, a type to itself.
AssignableValue(a, b) ==
    IF IsNever(a) \/ IsAny(b) THEN TRUE
    ELSE IF IsAny(a) THEN ~IsNever(b)
    ELSE a = b

\* The object type S is assignable to the object type R: a type is
\* assignable to itself; else every named member of R is a member of S of
\* the same visibility and an assignable type (read-only or not), and for
\* every index signature of R, the index signatures of S that apply to its
\* key have an assignable type, or, when S has none and is a mapped type (a
\* class type has no implicit index signature), the members of S that the
\* key applies to have.
Assignable(S, R) ==
    IF S = R THEN TRUE
    ELSE \A n \in DOMAIN R.props :
             IF n \in IndexKeys
             THEN IF ApplicableIndex(S, n) # {}
                  THEN AssignableValue(IndexType(S, ApplicableIndex(S, n)),
                                       R.props[n].ty)
                  ELSE /\ S.mapped
                       /\ \A m \in DOMAIN S.props :
                              KeyApplies(m, n)
                                  => AssignableValue(S.props[m].ty, R.props[n].ty)
             ELSE /\ n \in DOMAIN S.props
                  /\ S.props[n].vis = R.props[n].vis
                  /\ AssignableValue(S.props[n].ty, R.props[n].ty)

\* The construct signature s is assignable to `abstract new (...args: any)
\* => R`: its return type is assignable to R, and its parameters take what
\* the target's take; under strictFunctionTypes parameters are compared
\* contravariantly, and any is not assignable to the parameter type never.
SignatureAssignable(s, R, options) ==
    /\ s.args = NeverArgs => ~options.strictFunctionTypes
    /\ Assignable(s.ret, R)

\* InstanceType<T> =
\*   T extends abstract new (...args: any) => infer R ? R : any
\* R is inferred from the last construct signature of T; the result is R
\* when some construct signature of T is assignable to the signature that
\* returns R, else any.  never for never.
InstanceType(T, options) ==
    IF IsNever(T) THEN Never
    ELSE LET R == T.sigs[Len(T.sigs)].ret
         IN  IF \E i \in 1..Len(T.sigs) : SignatureAssignable(T.sigs[i], R, options)
             THEN R
             ELSE AnyType

\* ConstructorParameters<T> =
\*   T extends abstract new (...args: infer P) => any ? P : never
\* P is inferred from the last construct signature of T, which is assignable
\* to the signature that takes P whatever the options; never for never.
ConstructorParameters(T) == IF IsNever(T) THEN NeverArgs ELSE T.sigs[Len(T.sigs)].args

\* Where a construct signature is declared: in GuardedConstructor, in
\* UnguardedConstructor, or nowhere (the default constructor of a class
\* that declares none).
DeclaredInGuarded == "GuardedConstructor"

DeclaredInUnguarded == "UnguardedConstructor"

NotDeclared == "none"

\* The candidates of `new X()`, in the order overload resolution tries them:
\* the signatures of one declaration stay together in their order, a
\* signature of another declaration goes after all the candidates so far,
\* and a signature that follows one without declaration goes back to the
\* start of the current group.
RECURSIVE ReorderCandidates(_, _, _, _, _)
ReorderCandidates(signatures, result, last, cutoffIndex, index) ==
    IF signatures = << >> THEN result
    ELSE LET s == Head(signatures)
             same == last # NotDeclared /\ s.decl = last
             other == last # NotDeclared /\ s.decl # last
             at == IF same THEN index + 1
                   ELSE IF other THEN Len(result) ELSE cutoffIndex
             cut == IF other THEN Len(result) ELSE cutoffIndex
         IN  ReorderCandidates(Tail(signatures),
                               SubSeq(result, 1, at) \o <<s>>
                                   \o SubSeq(result, at + 1, Len(result)),
                               s.decl, cut, at)

Candidates(T) == ReorderCandidates(T.sigs, << >>, NotDeclared, 0, 0)

\* A parameter list accepts a call without arguments: the empty one does,
\* and a rest parameter of type never asks for no argument either.
AcceptsNoArguments(args) == args \in {NoArgs, NeverArgs}

\* The candidates that accept `new X()`, a call without arguments.
Applicable(T) == SelectSeq(Candidates(T), LAMBDA s : AcceptsNoArguments(s.args))

\* The type of `new X()`: the return type of the first applicable candidate
\* (when none is applicable the call is an error, reported with the return
\* type of the first candidate).
NewType(T) ==
    IF Applicable(T) # << >> THEN Applicable(T)[1].ret ELSE Candidates(T)[1].ret

\* { new(...args: P): I }, declared at D, I having the constituents C
ConstructSignature(D, P, I, C) ==
    [kind |-> "ctor",
     sigs |-> <<[decl |-> D, args |-> P, ret |-> I, parts |-> C]>>,
     stat |-> EmptyObject]

\* A constructor type T where an object type is expected, as in
\* Guarded<T, TGuard>: its static side; never stays never.
AsObject(T) == IF IsNever(T) THEN Never ELSE T.stat

\* An object type S as a constituent of a constructor type: no construct
\* signatures, static side S.
StaticSide(S) == [kind |-> "ctor", sigs |-> << >>, stat |-> S]

GuardedConstructorOpenStatics(T, TGuard, options) ==
    LET I == InstanceType(T, options)
    IN  IntersectCtor(ConstructSignature(DeclaredInGuarded, ConstructorParameters(T),
                                         Guarded(I, TGuard),
                                         GuardedConstituents(I, TGuard)),
                      StaticSide(UnguardedProperties(AsObject(T), TGuard)))

\* GuardedConstructor<T, TGuard> =
\*   { new(...args: ConstructorParameters<T>): Guarded<InstanceType<T>, TGuard> }
\*   & Guarded<T, TGuard>
GuardedConstructor(T, TGuard, options) ==
    LET I == InstanceType(T, options)
    IN  IntersectCtor(ConstructSignature(DeclaredInGuarded, ConstructorParameters(T),
                                         Guarded(I, TGuard),
                                         GuardedConstituents(I, TGuard)),
                      StaticSide(Guarded(AsObject(T), TGuard)))

\* UnguardedConstructor<T, TGuard> =
\*   { new(...args: ConstructorParameters<T>): Unguarded<InstanceType<T>, TGuard> }
\*   & Unguarded<T, TGuard>
UnguardedConstructor(T, TGuard, options) ==
    LET I == InstanceType(T, options)
    IN  IntersectCtor(ConstructSignature(DeclaredInUnguarded, ConstructorParameters(T),
                                         Unguarded(I, TGuard),
                                         UnguardedConstituents(I, TGuard)),
                      StaticSide(Unguarded(AsObject(T), TGuard)))

\* interface OriginalConstructorCarryon<T> { [originalConstructorKey]?: T }
OriginalConstructorCarryon(T) ==
    StaticSide([props |-> [n \in {originalConstructorKey} |->
                              [vis |-> "public", ro |-> FALSE, ty |-> T]],
                mapped |-> TRUE])

\* T has the member [originalConstructorKey].
HasMarker(T) ==
    IF IsConstructor(T) THEN originalConstructorKey \in DOMAIN T.stat.props ELSE FALSE

\* OriginalConstructor<T> =
\*   T extends { [originalConstructorKey]?: infer R } ? R : never
\* The target has only an optional member, so a T without that member has no
\* member in common with it and is not assignable: the result is never.
\* The member of T is optional too: declared with type never, it has the
\* type undefined when the compiler runs with strictNullChecks, and that is
\* what R is then inferred as.
OriginalConstructor(T, options) ==
    IF HasMarker(T)
    THEN IF IsNever(T.stat.props[originalConstructorKey].ty) /\ options.strictNullChecks
         THEN Undefined
         ELSE T.stat.props[originalConstructorKey].ty
    ELSE Never

\* ExtensibleGuardedConstructor<T, TGuard> =
\*   GuardedConstructor<T, TGuard> & OriginalConstructorCarryon<T>
ExtensibleGuardedConstructor(T, TGuard, options) ==
    IntersectCtor(GuardedConstructor(T, TGuard, options), OriginalConstructorCarryon(T))

\* MaybeExtensibleGuardedConstructor<T, TExtensible, TGuard> =
\*   TExtensible extends true ? ExtensibleGuardedConstructor<T, TGuard>
\*                            : GuardedConstructor<T, TGuard>
MaybeExtensibleGuardedConstructor(T, TExtensible, TGuard, options) ==
    IF TExtensible THEN ExtensibleGuardedConstructor(T, TGuard, options)
    ELSE GuardedConstructor(T, TGuard, options)

(* ------------------------- the source classes -------------------------- *)

\* A declared member: public / protected / private, readonly or not.
Member(vis, ro) == [vis |-> vis, ro |-> ro, ty |-> Value]

MemberKinds ==
    {Member("public", FALSE), Member("public", TRUE), Member("protected", FALSE)}

\* Every declaration of some of the names, each with one of the kinds.
Shapes(names) == UNION {[D -> MemberKinds] : D \in SUBSET names}

\* A facet without members.
NoMembers == [n \in {} |-> Member("public", FALSE)]

\* class Demo
Demo ==
    [inst |-> (NameA :> Member("public", FALSE)) @@
              (NameB :> Member("public", FALSE)) @@
              (NameD :> Member("protected", FALSE)) @@
              (NameE :> Member("private", FALSE)) @@
              (NameM :> Member("protected", FALSE)),
     stat |-> (NameT :> Member("public", FALSE)) @@
              (NameS :> Member("public", FALSE)) @@
              (NameN :> Member("protected", FALSE)) @@
              (NameP :> Member("protected", FALSE))]

\* class DollarSuffix
DollarSuffix ==
    [inst |-> (NameA :> Member("public", FALSE)) @@
              (NameF :> Member("public", FALSE)) @@
              (NameC :> Member("public", FALSE)),
     stat |-> (NameT :> Member("public", FALSE)) @@
              (NameQ :> Member("public", FALSE)) @@
              (NameV :> Member("public", FALSE))]

\* The classes: the two of the demonstration, and the classes that declare,
\* on one facet, any of the names with any of the kinds.
Entities ==
    {Demo, DollarSuffix}
    \cup {[inst |-> s, stat |-> NoMembers] : s \in Shapes(InstanceNames)}
    \cup {[inst |-> NoMembers, stat |-> s] : s \in Shapes(StaticNames)}

\* The instance type of a class: all its declared instance members.
ClassInstanceType(c) == [props |-> c.inst, mapped |-> FALSE]

\* typeof C: one construct signature; the static members and `prototype`.
TypeOfClass(c) ==
    [kind |-> "ctor",
     sigs |-> <<[decl |-> NotDeclared, args |-> NoArgs,
                 ret |-> ClassInstanceType(c),
                 parts |-> {ClassInstanceType(c)}]>>,
     stat |-> [props |-> [n \in DOMAIN c.stat \cup {Prototype} |->
                            IF n = Prototype THEN Member("public", FALSE)
                            ELSE c.stat[n]],
               mapped |-> FALSE]]

(* ------------------------- the static checker -------------------------- *)

\* The member that o.n resolves to through type T: the declared member n,
\* or else the index signatures that apply to n.
Resolves(T, n) == n \in DOMAIN T.props \/ ApplicableIndex(T, n) # {}

MemberOf(T, n) == IF n \in DOMAIN T.props THEN T.props[n] ELSE IndexMember(T, n)

\* o.n is readable through type T: n resolves to a public member of T.
CanRead(T, n) == IF Resolves(T, n) THEN MemberOf(T, n).vis = "public" ELSE FALSE

\* o.n = v is accepted through type T: n is a public member, not readonly,
\* and not of type never (to which no value is assignable).
CanWrite(T, n) ==
    IF CanRead(T, n) THEN ~MemberOf(T, n).ro /\ ~IsNever(MemberOf(T, n).ty)
    ELSE FALSE

\* new X() is accepted through type T: T is a constructor type and one of
\* its construct signatures accepts a call without arguments.
CanConstruct(T) == IF IsConstructor(T) THEN Applicable(T) # << >> ELSE FALSE

\* guardClass<T, TExtensible, TGuard>(ctor, extensible) called without type
\* arguments: nothing in the parameters mentions TGuard, so it is inferred
\* as its constraint, string.
InferredGuard == StringType

\* unguardClass<T extends ExtensibleGuardedConstructor<TOrig, TGuard>, ...>:
\* TOrig and TGuard are inferred as their constraints; the marker member of
\* the constraint is optional, and what is left of the constraint asks for a
\* construct signature returning a type with number and symbol index
\* signatures, which a mapped instance type has and a class instance type
\* has not.  The signature of the constraint is new(...args: any): under
\* strictFunctionTypes parameters are compared contravariantly, and any is
\* not assignable to the parameter type never.
UnguardAccepts(T, options) ==
    IF IsNever(T) THEN TRUE
    ELSE IF IsConstructor(T)
         THEN \E i \in 1..Len(T.sigs) :
                  /\ T.sigs[i].ret.mapped
                  /\ T.sigs[i].args = NeverArgs => ~options.strictFunctionTypes
    ELSE FALSE

\* `X as T` for X of type S is accepted: one of the two types is comparable
\* to the other.  never is comparable to every type; undefined is comparable
\* to no constructor type; a constructor type that carries a marker and the
\* constructor type of its marker are comparable.
AssertAccepts(S, T) ==
    IF IsNever(T) \/ IsNever(S) THEN TRUE
    ELSE IsConstructor(S) /\ IsConstructor(T)

\* A type argument for `T extends Constructor` is accepted: a constructor
\* type or never, not undefined.
IsConstructible(T) == IsConstructor(T) \/ IsNever(T)

(* ---------------------------- the runtime ------------------------------ *)

TheClass == "class"

ACopy == "copy"

\* return ctor as unknown as MaybeExtensibleGuardedConstructor<...>
GuardClassReturnsCopy(ctor) == ACopy

GuardClassReturn(ctor) == ctor

\* return ctor as any
UnguardClassReturn(ctor) == ctor

\* What `new` on the constructor object o builds: an object of that
\* constructor holding every declared instance field, as initialised.
Construct(o, c) ==
    [ctor |-> o, fields |-> [n \in DOMAIN c.inst \ Methods |-> "init"]]

(* --------------------------- the operations ---------------------------- *)

\* A re-typing as recorded: what was done and the type the binding has after
\* it (the type it had before is the one after the re-typing before it).
Op(op, after, ext, pat, explicit) ==
    [op |-> op, after |-> after, ext |-> ext, pat |-> pat, explicit |-> explicit]

\* The type of the binding before its i-th re-typing.
Before(i) == IF i = 1 THEN TypeOfClass(entity) ELSE hist[i - 1].after

\* The class as declared: its binding not yet re-typed, its static fields as
\* initialised, no instance made.
Start ==
    /\ held = TypeOfClass(entity)
    /\ hist = << >>
    /\ ref = TheClass
    /\ statics = [n \in DOMAIN entity.stat \ Methods |-> "init"]
    /\ made = << >>

Init ==
    /\ entity \in Entities
    /\ budget = MaxOps
    /\ Start
    /\ builds = CompilerOptions

\* In every re-typing below, Len(hist) < budget bounds the model: the
\* program re-types a binding as often as its author writes it.

\* The builds among B in which InstanceType<T> is I.
Reading(B, T, I) == {o \in B : InstanceType(T, o) = I}

\* What InstanceType<T> is in one or another of the builds B.
Readings(B, T) == {InstanceType(T, o) : o \in B}

\* One of the builds B, all of which give the same types.
OneOf(B) == CHOOSE o \in B : TRUE

\* export const X = guardClass<typeof X, ext, g>(X, ext)
GuardClassExplicit(ext, g) ==
    /\ Len(hist) < budget
    /\ IsConstructible(held)
    /\ \E I \in Readings(builds, held) :
           /\ builds' = Reading(builds, held, I)
           /\ held' = MaybeExtensibleGuardedConstructor(held, ext, g, OneOf(builds'))
    /\ hist' = Append(hist, Op("guardClass", held', ext, g, TRUE))
    /\ ref' = GuardClassReturn(ref)
    /\ UNCHANGED <<entity, statics, made, budget>>

\* export const X = guardClass(X, ext)
GuardClassInferred(ext) ==
    /\ Len(hist) < budget
    /\ IsConstructible(held)
    /\ \E I \in Readings(builds, held) :
           /\ builds' = Reading(builds, held, I)
           /\ held' = MaybeExtensibleGuardedConstructor(held, ext, InferredGuard,
                                                        OneOf(builds'))
    /\ hist' = Append(hist, Op("guardClass", held', ext, InferredGuard, FALSE))
    /\ ref' = GuardClassReturn(ref)
    /\ UNCHANGED <<entity, statics, made, budget>>

\* const X = unguardClass(X)
UnguardClass ==
    /\ Len(hist) < budget
    /\ \E R \in {OriginalConstructor(held, o) :
                      o \in {p \in builds : UnguardAccepts(held, p)}} :
           /\ held' = R
           /\ builds' = {o \in builds : /\ UnguardAccepts(held, o)
                                        /\ OriginalConstructor(held, o) = R}
    /\ hist' = Append(hist, Op("unguardClass", held', FALSE, StringType, FALSE))
    /\ ref' = UnguardClassReturn(ref)
    /\ UNCHANGED <<entity, statics, made, budget>>

\* const X = X as unknown as UnguardedConstructor<typeof X, g>
CastUnguarded(g) ==
    /\ Len(hist) < budget
    /\ IsConstructible(held)
    /\ \E I \in Readings(builds, held) :
           /\ builds' = Reading(builds, held, I)
           /\ held' = UnguardedConstructor(held, g, OneOf(builds'))
    /\ hist' = Append(hist, Op("castUnguarded", held', FALSE, g, TRUE))
    /\ UNCHANGED <<entity, ref, statics, made, budget>>

\* const X = X as OriginalConstructor<typeof X>
CastOriginal ==
    /\ Len(hist) < budget
    /\ \E R \in {OriginalConstructor(held, o) : o \in builds} :
           /\ AssertAccepts(held, R)
           /\ held' = R
           /\ builds' = {o \in builds : OriginalConstructor(held, o) = R}
    /\ hist' = Append(hist, Op("castOriginal", held', FALSE, StringType, FALSE))
    /\ UNCHANGED <<entity, ref, statics, made, budget>>

\* const o = new X(): o has the type that `new` gives through the type the
\* binding has now.
New ==
    /\ CanConstruct(held)
    /\ made' = <<[obj |-> Construct(ref, entity), type |-> NewType(held)]>>
    /\ UNCHANGED <<entity, held, hist, ref, statics, budget, builds>>

\* X.n = "written", for a static field n
WriteStatic(n) ==
    /\ IsConstructor(held)
    /\ CanWrite(held.stat, n)
    /\ statics' = [statics EXCEPT ![n] = "written"]
    /\ UNCHANGED <<entity, held, hist, ref, made, budget, builds>>

\* o.n = "written", for a field n of the instance o
WriteInstance(n) ==
    /\ made # << >>
    /\ n \in DOMAIN made[1].obj.fields
    /\ CanWrite(made[1].type, n)
    /\ made' = <<[made[1] EXCEPT !.obj.fields[n] = "written"]>>
    /\ UNCHANGED <<entity, held, hist, ref, statics, budget, builds>>

\* The re-typings of the binding.
Retype ==
    \/ \E ext \in BOOLEAN, g \in Patterns : GuardClassExplicit(ext, g)
    \/ \E ext \in BOOLEAN : GuardClassInferred(ext)
    \/ UnguardClass
    \/ \E g \in Patterns : CastUnguarded(g)
    \/ CastOriginal

Next ==
    \/ \E ext \in BOOLEAN, g \in Patterns : GuardClassExplicit(ext, g)
    \/ \E ext \in BOOLEAN : GuardClassInferred(ext)
    \/ UnguardClass
    \/ \E g \in Patterns : CastUnguarded(g)
    \/ CastOriginal
    \/ New
    \/ \E n \in DOMAIN statics : WriteStatic(n)
    \/ \E n \in DOMAIN entity.inst : WriteInstance(n)

Spec == Init /\ [][Next]_vars

\* The types alone, with nothing made or written (no re-typing reads or
\* changes what was made or written): the two classes of the demonstration
\* are re-typed more often than the others.
InitNested ==
    /\ entity \in Entities
    /\ budget = IF entity \in {Demo, DollarSuffix} THEN MaxNestedOps ELSE MaxOps
    /\ Start
    /\ builds = CompilerOptions

SpecNested == InitNested /\ [][Retype]_vars


(* ------------------------- reading the history ------------------------- *)

\* The re-typings of kind op that were applied to a constructible.
Steps(op) ==
    {i \in 1..Len(hist) : hist[i].op = op /\ IsConstructor(Before(i))}

\* The instance shapes a derivation from type B reads, InstanceType<B>, one
\* for every build the history is accepted in (where it is any there is no
\* shape to read).
Sources(B) == {I \in Readings(builds, B) : ~IsAny(I)}

\* The two facets of a derivation from type B to type A, as pairs
\* <<source shape, derived shape>>: the instance facet (what the derivation
\* reads and what `new` gives the holder of A) and the static facet.
Facets(B, A) ==
    {<<S, NewType(A)>> : S \in Sources(B)} \cup {<<B.stat, A.stat>>}

\* The named (string-keyed) members of a shape, all visibilities.
Named(S) == {n \in DOMAIN S.props : IsStringKey(n)}

\* The named members an external holder sees.
PublicNamed(S) == {n \in KeyOf(S) : IsStringKey(n)}

PropsOn(S, K) == [n \in K |-> S.props[n]]

(* ------------------------------- claims -------------------------------- *)

\* C1: after guarding a constructible with pattern P, every public member of
\* the source whose name matches P is readable but not writable through the
\* guarded type, on the instance facet and on the static facet.
C1_RestrictedReadOnly ==
    \A i \in Steps("guardClass") :
        \A f \in Facets(Before(i), hist[i].after) :
            \A n \in PublicNamed(f[1]) :
                Matches(n, hist[i].pat) =>
                    /\ CanRead(f[2], n)
                    /\ ~CanWrite(f[2], n)
                    /\ f[2].props[n].ro

\* C1 witness: a guard with an explicit pattern was applied to a class that
\* has a writable public member matching it on each facet.
C1_Witness ==
    \E i \in Steps("guardClass") :
        /\ hist[i].explicit
        /\ \A f \in Facets(Before(i), hist[i].after) :
               \E n \in PublicNamed(f[1]) :
                   Matches(n, hist[i].pat) /\ CanWrite(f[1], n) /\ ~CanWrite(f[2], n)

\* C2: after guarding with pattern P, every public member of the source whose
\* name does not match P is present in the guarded type exactly as it is in
\* the source (same visibility, same readonly modifier, same type).
C2_OpenTransparent ==
    \A i \in Steps("guardClass") :
        \A f \in Facets(Before(i), hist[i].after) :
            \A n \in PublicNamed(f[1]) :
                ~Matches(n, hist[i].pat) =>
                    /\ n \in DOMAIN f[2].props
                    /\ f[2].props[n] = f[1].props[n]

\* C2 witness: a guard left a writable open member writable and a readonly
\* open member readonly on the instance facet, and `prototype` writable on
\* the static facet.
C2_Witness ==
    \E i \in Steps("guardClass") :
      \E S \in Sources(Before(i)) :
        LET R == NewType(hist[i].after)
        IN  /\ \E n \in PublicNamed(S) :
                   ~Matches(n, hist[i].pat) /\ CanWrite(S, n) /\ CanWrite(R, n)
            /\ \E n \in PublicNamed(S) :
                   ~Matches(n, hist[i].pat) /\ ~CanWrite(S, n) /\ ~CanWrite(R, n)
            /\ ~Matches(Prototype, hist[i].pat)
            /\ CanWrite(hist[i].after.stat, Prototype)

\* C3 (as claimed): the original constructor recovered from a constructible
\* guarded with extensible = true is exactly the constructor that was
\* guarded.
C3_RoundTripAsClaimed ==
    \A i \in Steps("guardClass") :
        hist[i].ext =>
            \A s \in CompilerOptions :
                OriginalConstructor(hist[i].after, s) = Before(i)

\* C4 (as claimed): a constructible guarded with extensible = false resolves
\* to never under OriginalConstructor and is not accepted by unguardClass.
C4_NoRecoveryAsClaimed ==
    \A i \in Steps("guardClass") :
        ~hist[i].ext =>
            /\ \A s \in CompilerOptions : IsNever(OriginalConstructor(hist[i].after, s))
            /\ \A o \in CompilerOptions : ~UnguardAccepts(hist[i].after, o)

\* C5 (as claimed): the guarded constructible carries the origin marker iff
\* extensible was true, and the marker is the type of the constructor that
\* was passed to guardClass.
C5_MarkerAsClaimed ==
    \A i \in Steps("guardClass") :
        /\ HasMarker(hist[i].after) <=> hist[i].ext
        /\ hist[i].ext =>
               /\ HasMarker(hist[i].after)
               /\ hist[i].after.stat.props[originalConstructorKey].ty = Before(i)

\* C6 (as claimed): after guardClass without an explicit pattern a public
\* member is restricted iff its name begins with '_'; the others are as in
\* the source.
C6_DefaultAsClaimed ==
    \A i \in Steps("guardClass") :
        ~hist[i].explicit =>
            \A f \in Facets(Before(i), hist[i].after) :
                \A n \in PublicNamed(f[1]) :
                    IF StartsWith(n, <<"_">>)
                    THEN CanRead(f[2], n) /\ ~CanWrite(f[2], n)
                    ELSE f[2].props[n] = f[1].props[n]

\* Guarding from S to R with pattern P restricts exactly the public members
\* of S whose names satisfy Hit: those are readable and not writable in R,
\* the other public members are in R as they are in S.
RestrictsExactly(S, R, Hit(_)) ==
    \A n \in PublicNamed(S) :
        IF Hit(n)
        THEN CanRead(R, n) /\ ~CanWrite(R, n)
        ELSE n \in DOMAIN R.props /\ R.props[n] = S.props[n]

EndsInDollar(n) == EndsWith(n, <<"$">>)

\* No member name of S matches P.
NoneMatches(S, P) == \A n \in Named(S) : ~Matches(n, P)

\* C7 (as claimed): under the suffix pattern exactly the public members whose
\* names end in '$' are restricted, and whenever no member name of the source
\* matches the pattern the guarded shape has the very members of the source.
C7_CustomPatternAsClaimed ==
    \A i \in Steps("guardClass") :
        \A f \in Facets(Before(i), hist[i].after) :
            /\ hist[i].pat = DollarGuard => RestrictsExactly(f[1], f[2], EndsInDollar)
            /\ NoneMatches(f[1], hist[i].pat) =>
                   PropsOn(f[2], Named(f[2])) = PropsOn(f[1], Named(f[1]))

\* C7 (amended): under the suffix pattern exactly the public members whose
\* names end in '$' are restricted, a leading '_' restricting nothing; and
\* whenever no member name of the source matches the pattern the guarded
\* shape has exactly the public members of the source, each as in the source
\* (the members that are not public are dropped).
C7_CustomPattern ==
    \A i \in Steps("guardClass") :
        \A f \in Facets(Before(i), hist[i].after) :
            /\ hist[i].pat = DollarGuard => RestrictsExactly(f[1], f[2], EndsInDollar)
            /\ NoneMatches(f[1], hist[i].pat) =>
                   PropsOn(f[2], Named(f[2])) = PropsOn(f[1], PublicNamed(f[1]))

\* C7 witness: under the suffix pattern a public '$' member of the instance
\* facet became read-only while a public '_' member stayed writable, and the
\* static facet, where no name matched, kept its public members.
C7_Witness ==
    \E i \in Steps("guardClass") :
      \E S \in Sources(Before(i)) :
        LET R == NewType(hist[i].after)
        IN  /\ hist[i].pat = DollarGuard
            /\ hist[i].explicit
            /\ CanWrite(S, NameC) /\ ~CanWrite(R, NameC)
            /\ CanWrite(S, NameB) /\ CanWrite(R, NameB)
            /\ NoneMatches(Before(i).stat, DollarGuard)
            /\ PublicNamed(hist[i].after.stat) # {}

\* The pairs of steps that guard with a pattern and then cast the result to
\* UnguardedConstructor with the same pattern.
GuardThenRelax ==
    {i \in Steps("guardClass") :
        /\ i < Len(hist)
        /\ hist[i + 1].op = "castUnguarded"
        /\ hist[i + 1].pat = hist[i].pat}

\* C8 (as claimed): unguarding a guarded shape with the same pattern gives
\* every member of the source with the mutability it has in the source.
C8_RelaxRestrictAsClaimed ==
    \A i \in GuardThenRelax :
        \A f \in Facets(Before(i), hist[i + 1].after) :
            \A n \in Named(f[1]) :
                /\ n \in DOMAIN f[2].props
                /\ f[2].props[n].ro = f[1].props[n].ro

\* C8 (amended): unguarding a guarded shape with the same pattern gives
\* exactly the public members of the source; those not matching the pattern
\* have the mutability they have in the source, those matching it are
\* writable, also when they were read-only in the source.
C8_RelaxRestrict ==
    \A i \in GuardThenRelax :
        \A f \in Facets(Before(i), hist[i + 1].after) :
            /\ Named(f[2]) = PublicNamed(f[1])
            /\ \A n \in PublicNamed(f[1]) :
                   /\ CanRead(f[2], n)
                   /\ f[2].props[n].ro = (f[1].props[n].ro /\ ~Matches(n, hist[i].pat))

\* C8 witness: a guard followed by the cast with the same pattern, over a
\* facet with a read-only member matching the pattern, writable afterwards,
\* a read-only member not matching it, still read-only, and a writable
\* member not matching it, still writable.
C8_Witness ==
    \E i \in GuardThenRelax :
        \E f \in Facets(Before(i), hist[i + 1].after) :
            LET P == hist[i].pat
            IN  /\ \E n \in PublicNamed(f[1]) :
                       Matches(n, P) /\ f[1].props[n].ro /\ CanWrite(f[2], n)
                /\ \E n \in PublicNamed(f[1]) :
                       ~Matches(n, P) /\ f[1].props[n].ro /\ ~CanWrite(f[2], n)
                /\ \E n \in PublicNamed(f[1]) :
                       ~Matches(n, P) /\ CanWrite(f[1], n) /\ CanWrite(f[2], n)

\* A field of the instance was written in this step.
WroteField ==
    /\ made # << >>
    /\ made' # << >>
    /\ \E n \in DOMAIN made[1].obj.fields :
           made[1].obj.fields[n] = "init" /\ made'[1].obj.fields[n] = "written"

\* C9: guardClass and unguardClass return the constructor object they were
\* given and change no static value and no instance; every instance made
\* through the binding, however it was re-typed, is what the class itself
\* constructs.
C9_PureRelabeling ==
    /\ [][(/\ Len(hist') = Len(hist) + 1
           /\ hist'[Len(hist')].op \in {"guardClass", "unguardClass"})
          => (ref' = ref /\ statics' = statics /\ made' = made /\ entity' = entity)]_vars
    /\ [][(made' # made /\ ~WroteField)
          => made'[1].obj = Construct(TheClass, entity)]_vars
    /\ [](\A k \in 1..Len(made) :
              /\ made[k].obj.ctor = TheClass
              /\ DOMAIN made[k].obj.fields = DOMAIN Construct(TheClass, entity).fields)

\* C9 witness: the binding went through guardClass and unguardClass, a
\* static member was written, and an instance was made through the
\* recovered binding and written to.
C9_Witness ==
    /\ \E i \in 1..Len(hist) : hist[i].op = "guardClass"
    /\ \E i \in 1..Len(hist) : hist[i].op = "unguardClass" /\ IsConstructor(hist[i].after)
    /\ \E n \in DOMAIN statics : statics[n] = "written"
    /\ made # << >>
    /\ IsConstructor(held)
    /\ made[1].type = NewType(held)
    /\ \E n \in DOMAIN made[1].obj.fields : made[1].obj.fields[n] = "written"

\* The members of a shape that are not public.
NonPublic(S) == {n \in DOMAIN S.props : S.props[n].vis # "public"}

\* C10 (as claimed): the protected and private members of the source are in
\* neither the guarded nor the unguarded shape, on both facets and whatever
\* their names; they are classified neither restricted nor open; and an
\* external holder can read or write them neither in an instance made
\* through the binding, through the type that instance was given, nor on
\* the static side, through whatever constructor type the binding has, the
\* original one included.
C10_NonPublicAbsentAsClaimed ==
    /\ \A i \in Steps("guardClass") \cup Steps("castUnguarded") :
           \A f \in Facets(Before(i), hist[i].after) :
               /\ NonPublic(f[2]) = {}
               /\ \A n \in NonPublic(f[1]) :
                      /\ n \notin DOMAIN f[2].props
                      /\ n \notin GuardedNameOf(f[1], hist[i].pat)
                      /\ n \notin DOMAIN UnguardedProperties(f[1], hist[i].pat).props
    /\ \A k \in 1..Len(made) :
           \A n \in NonPublic(ClassInstanceType(entity)) :
               /\ ~CanRead(made[k].type, n)
               /\ ~CanWrite(made[k].type, n)
               /\ n \in DOMAIN made[k].obj.fields => made[k].obj.fields[n] = "init"
    /\ IsConstructor(held) =>
           /\ \A n \in NonPublic(ClassInstanceType(entity)) :
                  \A k \in 1..Len(held.sigs) :
                      ~CanRead(held.sigs[k].ret, n) /\ ~CanWrite(held.sigs[k].ret, n)
           /\ \A n \in NonPublic(TypeOfClass(entity).stat) :
                  /\ ~CanRead(held.stat, n) /\ ~CanWrite(held.stat, n)
                  /\ n \in DOMAIN statics => statics[n] = "init"

(* ---------------------------- the lifecycle ---------------------------- *)

\* The members the class declares public and writable that the holder of a
\* constructible of type T may not write: instance members through what
\* `new` gives, static members through the constructible itself.
DeniedWrites(T) ==
    LET C == TypeOfClass(entity)
    IN  {<<"instance", n>> : n \in {m \in KeyOf(NewType(C)) :
                CanWrite(NewType(C), m) /\ ~CanWrite(NewType(T), m)}}
        \cup
        {<<"static", n>> : n \in {m \in KeyOf(C.stat) :
                CanWrite(C.stat, m) /\ ~CanWrite(T.stat, m)}}

\* Recovered: the holder may write whatever the class itself allows.
Recovered(T) == IF IsConstructor(T) THEN DeniedWrites(T) = {} ELSE FALSE

\* Restricted: the holder is denied some write the class itself allows.
Restricted(T) == IF IsConstructor(T) THEN DeniedWrites(T) # {} ELSE FALSE

\* The writes the class allows to the members that pattern P classifies as
\* restricted.
RestrictedWrites(P) ==
    LET C == TypeOfClass(entity)
    IN  {<<"instance", n>> : n \in {m \in KeyOf(NewType(C)) :
                CanWrite(NewType(C), m) /\ Matches(m, P)}}
        \cup
        {<<"static", n>> : n \in {m \in KeyOf(C.stat) :
                CanWrite(C.stat, m) /\ Matches(m, P)}}

\* The re-typings that recover: unguardClass, and the assertion to
\* OriginalConstructor.
Recover == {"unguardClass", "castOriginal"}

\* The re-typing applied last, when it was applied to a constructible (every
\* re-typing is the last one in the state it leads to).
LastStep ==
    IF hist = << >> THEN {}
    ELSE IF IsConstructor(Before(Len(hist))) THEN {Len(hist)} ELSE {}

\* C11 (as claimed): immediately after a wrap the constructible is
\* Restricted (the holder is denied every write to a member that the pattern
\* classifies as restricted); it becomes Recovered only through a recover of
\* a constructible that carries a marker or through the cast to
\* UnguardedConstructor; once Recovered it is Restricted again only after a
\* guardClass; and guardClass can be applied to every constructible, a
\* Recovered one included.
C11_LifecycleAsClaimed ==
    /\ \A i \in LastStep :
           /\ hist[i].op = "guardClass"
                  => RestrictedWrites(hist[i].pat) \subseteq DeniedWrites(hist[i].after)
           /\ (~Recovered(Before(i)) /\ Recovered(hist[i].after))
                  => IF hist[i].op \in Recover THEN HasMarker(Before(i))
                     ELSE hist[i].op = "castUnguarded"
           /\ (Recovered(Before(i)) /\ Restricted(hist[i].after))
                  => hist[i].op = "guardClass"
    /\ IsConstructor(held) => IsConstructible(held)


(* ------------------------- statics and origin -------------------------- *)

\* C12 as stated: after a wrap with extensible = false, no public static
\* member of the source whose name matches the pattern can be read through
\* the wrapped constructible.
C12_StaticsNeedOriginAsClaimed ==
    \A i \in Steps("guardClass") :
        ~hist[i].ext =>
            \A n \in PublicNamed(Before(i).stat) :
                Matches(n, hist[i].pat) => ~CanRead(hist[i].after.stat, n)

\* C12: after a wrap, with extensible = true or false alike, every public
\* static member of the source whose name matches the pattern is readable and
\* not writable through the wrapped constructible; its named static members
\* are the public named static members of the source, whatever extensible is.
C12_StaticsReachableEitherWay ==
    \A i \in Steps("guardClass") :
        /\ Named(hist[i].after.stat) = PublicNamed(Before(i).stat)
        /\ \A n \in PublicNamed(Before(i).stat) :
               Matches(n, hist[i].pat) =>
                   CanRead(hist[i].after.stat, n) /\ ~CanWrite(hist[i].after.stat, n)

\* C12 witness: a class with a writable public static member of a guarded
\* name was wrapped with extensible = false; the wrapped constructible has
\* no marker, and the member is readable and read-only through it.
C12_Witness ==
    \E i \in Steps("guardClass") :
        /\ ~hist[i].ext
        /\ hist[i].explicit
        /\ ~HasMarker(hist[i].after)
        /\ \E n \in PublicNamed(Before(i).stat) :
               /\ Matches(n, hist[i].pat)
               /\ CanWrite(Before(i).stat, n)
               /\ CanRead(hist[i].after.stat, n)
               /\ ~CanWrite(hist[i].after.stat, n)


(* ----------------------------- idempotence ----------------------------- *)

\* The wraps that were applied, with the same pattern, to the result of a
\* wrap: the second of two derivations in a row.
Rewraps ==
    {i \in 2..Len(hist) :
        /\ hist[i].op = "guardClass"
        /\ hist[i - 1].op = "guardClass"
        /\ hist[i - 1].pat = hist[i].pat
        /\ IsConstructor(Before(i - 1))}

\* The two facets of a double derivation, as triples <<source shape, shape
\* derived once, shape derived twice>>.
TwiceFacets(i) ==
    {<<S, R, NewType(hist[i].after)>> :
         S \in Sources(Before(i - 1)), R \in Sources(Before(i))}
    \cup {<<Before(i - 1).stat, Before(i).stat, hist[i].after.stat>>}

\* The public named members of shape S that pattern P classifies as
\* restricted.
RestrictedOf(S, P) == {n \in GuardedNameOf(S, P) : IsStringKey(n)}

\* C13: when a shape is derived twice with the same pattern, the second
\* derivation classifies the same public members as restricted and the same
\* as open as the first one did, and its result has the same named members,
\* with the same visibility and mutability, as the result of the first.
C13_Idempotent ==
    \A i \in Rewraps :
        \A f \in TwiceFacets(i) :
            /\ PublicNamed(f[2]) = PublicNamed(f[1])
            /\ RestrictedOf(f[2], hist[i].pat) = RestrictedOf(f[1], hist[i].pat)
            /\ PublicNamed(f[3]) = PublicNamed(f[2])
            /\ RestrictedOf(f[3], hist[i].pat) = RestrictedOf(f[2], hist[i].pat)
            /\ Named(f[3]) = Named(f[2])
            /\ \A n \in Named(f[3]) : f[3].props[n] = f[2].props[n]

\* C13 witness: a class with a writable public member of a guarded name and
\* a writable public member of an open name was wrapped twice in a row with
\* the same explicit pattern; after the second wrap the first is read-only
\* and the second writable, as after the first wrap.
C13_Witness ==
    \E i \in Rewraps :
      \E S \in Sources(Before(i - 1)), R \in Sources(Before(i)) :
        LET P == hist[i].pat
            RR == NewType(hist[i].after)
        IN  /\ hist[i].explicit
            /\ \E n \in PublicNamed(S) :
                   /\ Matches(n, P)
                   /\ CanWrite(S, n) /\ ~CanWrite(R, n) /\ ~CanWrite(RR, n)
                   /\ CanRead(RR, n)
            /\ \E n \in PublicNamed(S) :
                   ~Matches(n, P) /\ CanWrite(S, n) /\ CanWrite(RR, n)

====
